---- MODULE Spec2Model ----
(***************************************************************************)
(* Peer address metadata (zebra-network/src/meta_addr.rs): the MetaAddr    *)
(* record, the MetaAddrChange events and the fold apply_to_meta_addr that  *)
(* applies a change to the record an address book holds for one endpoint.  *)
(*                                                                         *)
(* Option<T> is modelled as a sequence: None is <<>> and Some(x) is <<x>>. *)
(* DateTime32 values are seconds (u32), Instants are seconds on the        *)
(* monotonic clock.                                                        *)
(***************************************************************************)
EXTENDS Integers, Sequences, FiniteSets, TLC

\* ------------------------------------------------------------------------
\* Bounds of the model
\* ------------------------------------------------------------------------

\* The wall clock takes the values k * WallStep, k \in 0..MaxWall.
MaxWall == 1

\* The monotonic clock advances MaxTicks times at most.
MaxTicks == 1

\* Service bit patterns range over 0..MaxServices.
MaxServices == 1

\* The services field of bytes received from a peer ranges over
\* 0..MaxWireServices.
MaxWireServices == 3

\* ------------------------------------------------------------------------
\* Program constants
\* ------------------------------------------------------------------------

\* PeerServices::NODE_NETWORK, the only service bit that is interpreted.
NODE_NETWORK == 1

\* A faulty truncation unit, of one hour.
TIMESTAMP_TRUNCATION_one_hour == 60 * 60

\* constants::TIMESTAMP_TRUNCATION_SECONDS = 30 * 60
TIMESTAMP_TRUNCATION_SECONDS == 30 * 60

\* constants::MIN_PEER_RECONNECTION_DELAY = 60 + 20 + 20 + 20 seconds
MIN_PEER_RECONNECTION_DELAY == 60 + 20 + 20 + 20

\* A faulty request timeout, of half a minute.
REQUEST_TIMEOUT_half_minute == 20 + 10

\* constants::REQUEST_TIMEOUT, in seconds
REQUEST_TIMEOUT == 20

\* constants::HANDSHAKE_TIMEOUT, in seconds
HANDSHAKE_TIMEOUT == 4

\* constants::HEARTBEAT_INTERVAL, in seconds
HEARTBEAT_INTERVAL == 60

\* constants::EWMA_DEFAULT_RTT, in seconds
EWMA_DEFAULT_RTT == REQUEST_TIMEOUT + 1

\* constants::EWMA_DECAY_TIME, in seconds
EWMA_DECAY_TIME == 200

\* protocol::external::MAX_PROTOCOL_MESSAGE_LEN: 2 MB
MAX_PROTOCOL_MESSAGE_LEN == 2 * 1024 * 1024

\* Granularity of the modelled clocks, in seconds: half the truncation unit
\* for the wall clock, half the reconnection delay for the monotonic clock.
WallStep == TIMESTAMP_TRUNCATION_SECONDS \div 2
InstantStep == MIN_PEER_RECONNECTION_DELAY \div 2

\* ------------------------------------------------------------------------
\* Option<T>
\* ------------------------------------------------------------------------

None == <<>>
Some(x) == <<x>>
is_some(o) == o # None
unwrap(o) == o[1]

\* A faulty Option::or, which prefers its argument to self.
or_prefers_argument(a, b) == IF is_some(b) THEN b ELSE a

\* Option::or
or(a, b) == IF is_some(a) THEN a ELSE b

\* A faulty Option::unwrap_or, which always takes the default.
unwrap_or_takes_default(o, d) == d

\* Option::unwrap_or
unwrap_or(o, d) == IF is_some(o) THEN unwrap(o) ELSE d

\* Ord for Option<T>: None is less than every Some, Some compare by value.
OptionLe(a, b) == \/ a = None
                  \/ is_some(b) /\ unwrap(a) <= unwrap(b)

\* A faulty maximum, in which the last writer wins.
OptionMax_last_write(self, other) == IF is_some(self) THEN self ELSE other

\* Ord::max on Option<T>: the other operand unless self is strictly greater.
OptionMax(self, other) == IF OptionLe(self, other) THEN other ELSE self

\* ------------------------------------------------------------------------
\* Endpoints
\* ------------------------------------------------------------------------

V4(o) == [v |-> 4, octets |-> o]
V6(o) == [v |-> 6, octets |-> o]
SocketAddr(ip, port) == [ip |-> ip, port |-> port]

\* The canonical endpoint whose address book entry is modelled.
Endpoints == { SocketAddr(V4(<<192, 0, 2, 1>>), 8233) }

\* ------------------------------------------------------------------------
\* PeerAddrState
\* ------------------------------------------------------------------------

PeerAddrState == { "Responded", "NeverAttemptedGossiped",
                   "NeverAttemptedAlternate", "Failed", "AttemptPending" }

\* A faulty is_never_attempted, which forgets the alternate state.
is_never_attempted_gossiped_only(state) == state = "NeverAttemptedGossiped"

is_never_attempted(state) ==
    state \in { "NeverAttemptedGossiped", "NeverAttemptedAlternate" }

\* ------------------------------------------------------------------------
\* MetaAddr
\* ------------------------------------------------------------------------

MetaAddr(addr, services, uls, lr, la, lf, state) ==
    [ addr                  |-> addr,
      services              |-> services,
      untrusted_last_seen   |-> uls,
      last_response         |-> lr,
      last_attempt          |-> la,
      last_failure          |-> lf,
      last_connection_state |-> state ]

\* ------------------------------------------------------------------------
\* MetaAddrChange
\* ------------------------------------------------------------------------

NewGossiped(addr, untrusted_services, uls) ==
    [ kind |-> "NewGossiped", addr |-> addr,
      untrusted_services |-> untrusted_services, untrusted_last_seen |-> uls ]
NewAlternate(addr, untrusted_services) ==
    [ kind |-> "NewAlternate", addr |-> addr,
      untrusted_services |-> untrusted_services ]
NewLocal(addr) == [ kind |-> "NewLocal", addr |-> addr ]
UpdateAttempt(addr) == [ kind |-> "UpdateAttempt", addr |-> addr ]
UpdateResponded(addr, services) ==
    [ kind |-> "UpdateResponded", addr |-> addr, services |-> services ]
\* UpdateFailed carries an Option<PeerServices>; its field has a name of its
\* own so that records of different kinds stay comparable.
UpdateFailed(addr, services) ==
    [ kind |-> "UpdateFailed", addr |-> addr, optional_services |-> services ]

NewKinds == { "NewGossiped", "NewAlternate", "NewLocal" }
UpdateKinds == { "UpdateAttempt", "UpdateResponded", "UpdateFailed" }

\* MetaAddrChange::addr
change_addr(c) == c.addr

\* MetaAddrChange::untrusted_services
untrusted_services(c) ==
    CASE c.kind = "NewGossiped"     -> Some(c.untrusted_services)
      [] c.kind = "NewAlternate"    -> Some(c.untrusted_services)
      [] c.kind = "NewLocal"        -> Some(NODE_NETWORK)
      [] c.kind = "UpdateAttempt"   -> None
      [] c.kind = "UpdateResponded" -> Some(c.services)
      [] c.kind = "UpdateFailed"    -> c.optional_services

\* A faulty untrusted_last_seen, which gives the local listener no time.
untrusted_last_seen_without_local(c, dtNow) ==
    IF c.kind = "NewGossiped" THEN Some(c.untrusted_last_seen) ELSE None

\* MetaAddrChange::untrusted_last_seen; dtNow is DateTime32::now()
untrusted_last_seen(c, dtNow) ==
    CASE c.kind = "NewGossiped"     -> Some(c.untrusted_last_seen)
      [] c.kind = "NewAlternate"    -> None
      [] c.kind = "NewLocal"        -> Some(dtNow)
      [] c.kind = "UpdateAttempt"   -> None
      [] c.kind = "UpdateResponded" -> None
      [] c.kind = "UpdateFailed"    -> None

\* MetaAddrChange::last_attempt; instNow is Instant::now()
last_attempt(c, instNow) ==
    IF c.kind = "UpdateAttempt" THEN Some(instNow) ELSE None

\* MetaAddrChange::last_response; dtNow is DateTime32::now()
last_response(c, dtNow) ==
    IF c.kind = "UpdateResponded" THEN Some(dtNow) ELSE None

\* A faulty last_failure, copied from last_attempt without its variant changed.
last_failure_of_attempt(c, instNow) ==
    IF c.kind = "UpdateAttempt" THEN Some(instNow) ELSE None

\* MetaAddrChange::last_failure; instNow is Instant::now()
last_failure(c, instNow) ==
    IF c.kind = "UpdateFailed" THEN Some(instNow) ELSE None

\* MetaAddrChange::peer_addr_state
peer_addr_state(c) ==
    CASE c.kind = "NewGossiped"     -> "NeverAttemptedGossiped"
      [] c.kind = "NewAlternate"    -> "NeverAttemptedAlternate"
      [] c.kind = "NewLocal"        -> "NeverAttemptedGossiped"
      [] c.kind = "UpdateAttempt"   -> "AttemptPending"
      [] c.kind = "UpdateResponded" -> "Responded"
      [] c.kind = "UpdateFailed"    -> "Failed"

\* MetaAddrChange::into_new_meta_addr
into_new_meta_addr(c, dtNow) ==
    IF c.kind \in { "NewGossiped", "NewAlternate", "NewLocal" }
    THEN Some(MetaAddr(change_addr(c),
                       unwrap(untrusted_services(c)),
                       untrusted_last_seen(c, dtNow),
                       None, None, None,
                       peer_addr_state(c)))
    ELSE None

\* The outcome of a failed assert_eq!: the call panics and returns nothing.
Panicked == << "panic", "unexpected addr mismatch" >>

\* A faulty apply_to_meta_addr, which merges a never-attempted change into an
\* attempted record instead of ignoring it.
apply_to_meta_addr_without_reject(c, previous, dtNow, instNow) ==
    IF is_some(previous)
    THEN LET prev == unwrap(previous)
         IN  IF prev.addr # change_addr(c)
             THEN Panicked
             ELSE IF is_some(into_new_meta_addr(c, dtNow))
             THEN Some(MetaAddr(change_addr(c),
                                prev.services,
                                or(prev.untrusted_last_seen,
                                   untrusted_last_seen(c, dtNow)),
                                None, None, None,
                                peer_addr_state(c)))
             ELSE Some(MetaAddr(change_addr(c),
                                unwrap_or(untrusted_services(c), prev.services),
                                prev.untrusted_last_seen,
                                OptionMax(last_response(c, dtNow), prev.last_response),
                                OptionMax(last_attempt(c, instNow), prev.last_attempt),
                                OptionMax(last_failure(c, instNow), prev.last_failure),
                                peer_addr_state(c)))
    ELSE into_new_meta_addr(c, dtNow)

\* A faulty apply_to_meta_addr, without the assertion on the addresses.
apply_to_meta_addr_without_assert(c, previous, dtNow, instNow) ==
    IF is_some(previous)
    THEN LET prev == unwrap(previous)
         IN  IF c.kind \in NewKinds
             THEN IF ~is_never_attempted(prev.last_connection_state)
                  THEN None
                  ELSE Some(MetaAddr(change_addr(c),
                                     prev.services,
                                     or(prev.untrusted_last_seen,
                                        untrusted_last_seen(c, dtNow)),
                                     None, None, None,
                                     peer_addr_state(c)))
             ELSE Some(MetaAddr(change_addr(c),
                                unwrap_or(untrusted_services(c), prev.services),
                                prev.untrusted_last_seen,
                                OptionMax(last_response(c, dtNow), prev.last_response),
                                OptionMax(last_attempt(c, instNow), prev.last_attempt),
                                OptionMax(last_failure(c, instNow), prev.last_failure),
                                peer_addr_state(c)))
    ELSE into_new_meta_addr(c, dtNow)

\* MetaAddrChange::apply_to_meta_addr; previous is an Option<MetaAddr>
apply_to_meta_addr(c, previous, dtNow, instNow) ==
    IF is_some(previous)
    THEN LET prev == unwrap(previous)
             previous_has_been_attempted ==
                 ~is_never_attempted(prev.last_connection_state)
             new == into_new_meta_addr(c, dtNow)
             change_to_never_attempted ==
                 IF is_some(new)
                 THEN is_never_attempted(unwrap(new).last_connection_state)
                 ELSE FALSE
         IN  IF prev.addr # change_addr(c)
             THEN Panicked
             ELSE IF change_to_never_attempted
             THEN IF previous_has_been_attempted
                  THEN None
                  ELSE Some(MetaAddr(change_addr(c),
                                     prev.services,
                                     or(prev.untrusted_last_seen,
                                        untrusted_last_seen(c, dtNow)),
                                     None, None, None,
                                     peer_addr_state(c)))
             ELSE Some(MetaAddr(change_addr(c),
                                unwrap_or(untrusted_services(c), prev.services),
                                prev.untrusted_last_seen,
                                OptionMax(last_response(c, dtNow), prev.last_response),
                                OptionMax(last_attempt(c, instNow), prev.last_attempt),
                                OptionMax(last_failure(c, instNow), prev.last_failure),
                                peer_addr_state(c)))
    ELSE into_new_meta_addr(c, dtNow)

\* ------------------------------------------------------------------------
\* Queries over a MetaAddr, the sanitizer and the wire decoder
\* ------------------------------------------------------------------------

\* PeerServices::contains, on the bit pattern of a service set
contains(services, flag) == (services \div flag) % 2 = 1

\* IpAddr::is_unspecified: 0.0.0.0 or ::
is_unspecified(ip) == \A i \in DOMAIN ip.octets : ip.octets[i] = 0

\* zebra_chain::serialization::canonical_socket_addr: an IPv4-mapped IPv6
\* address (::ffff:a.b.c.d) becomes the IPv4 address a.b.c.d.
canonical_socket_addr(addr) ==
    IF /\ addr.ip.v = 6
       /\ \A i \in 1 .. 10 : addr.ip.octets[i] = 0
       /\ addr.ip.octets[11] = 255
       /\ addr.ip.octets[12] = 255
    THEN SocketAddr(V4(SubSeq(addr.ip.octets, 13, 16)), addr.port)
    ELSE addr

\* A faulty last_seen, which prefers the gossiped time to our own.
last_seen_prefers_untrusted(r) == or(r.untrusted_last_seen, r.last_response)

\* MetaAddr::last_seen
last_seen(r) == or(r.last_response, r.untrusted_last_seen)

\* A faulty address_is_valid_for_outbound, which accepts port 0.
address_is_valid_for_outbound_any_port(r) == ~is_unspecified(r.addr.ip)

\* MetaAddr::address_is_valid_for_outbound
address_is_valid_for_outbound(r) ==
    ~is_unspecified(r.addr.ip) /\ r.addr.port # 0

\* A faulty last_known_info_is_valid_for_outbound, which accepts any services.
last_known_info_is_valid_for_outbound_any_services(r) ==
    address_is_valid_for_outbound(r)

\* MetaAddr::last_known_info_is_valid_for_outbound
last_known_info_is_valid_for_outbound(r) ==
    contains(r.services, NODE_NETWORK) /\ address_is_valid_for_outbound(r)

\* DateTime32::saturating_elapsed: the seconds from t to now, 0 if t is in
\* the future of the wall clock; dtNow is DateTime32::now()
saturating_elapsed(t, dtNow) == IF dtNow >= t THEN dtNow - t ELSE 0

\* Instant::elapsed: the seconds from i to now; instNow is Instant::now(),
\* which is never before an Instant taken earlier
elapsed(i, instNow) == IF instNow >= i THEN instNow - i ELSE 0

\* A faulty has_connection_recently_responded, with < in place of <=.
has_connection_recently_responded_strict(r, dtNow) ==
    IF is_some(r.last_response)
    THEN saturating_elapsed(unwrap(r.last_response), dtNow)
             < MIN_PEER_RECONNECTION_DELAY
    ELSE FALSE

\* MetaAddr::has_connection_recently_responded
has_connection_recently_responded(r, dtNow) ==
    IF is_some(r.last_response)
    THEN saturating_elapsed(unwrap(r.last_response), dtNow)
             <= MIN_PEER_RECONNECTION_DELAY
    ELSE FALSE

\* MetaAddr::was_connection_recently_attempted
was_connection_recently_attempted(r, instNow) ==
    IF is_some(r.last_attempt)
    THEN elapsed(unwrap(r.last_attempt), instNow) <= MIN_PEER_RECONNECTION_DELAY
    ELSE FALSE

\* A faulty has_connection_recently_failed, which holds a failed peer back
\* for ever.
has_connection_recently_failed_forever(r, instNow) == is_some(r.last_failure)

\* MetaAddr::has_connection_recently_failed
has_connection_recently_failed(r, instNow) ==
    IF is_some(r.last_failure)
    THEN elapsed(unwrap(r.last_failure), instNow) <= MIN_PEER_RECONNECTION_DELAY
    ELSE FALSE

\* A faulty is_ready_for_connection_attempt, which never dials a peer with
\* an attempt pending.
is_ready_for_connection_attempt_unless_pending(r, dtNow, instNow) ==
    /\ r.last_connection_state # "AttemptPending"
    /\ last_known_info_is_valid_for_outbound(r)
    /\ ~has_connection_recently_responded(r, dtNow)
    /\ ~was_connection_recently_attempted(r, instNow)
    /\ ~has_connection_recently_failed(r, instNow)

\* MetaAddr::is_ready_for_connection_attempt
is_ready_for_connection_attempt(r, dtNow, instNow) ==
    /\ last_known_info_is_valid_for_outbound(r)
    /\ ~has_connection_recently_responded(r, dtNow)
    /\ ~was_connection_recently_attempted(r, instNow)
    /\ ~has_connection_recently_failed(r, instNow)

\* A faulty sanitize, which truncates the time and keeps the local state.
sanitize_keeps_local_state(r) ==
    IF ~last_known_info_is_valid_for_outbound(r)
    THEN None
    ELSE IF last_seen(r) = None
    THEN None
    ELSE LET t == unwrap(last_seen(r))
             remainder == t % TIMESTAMP_TRUNCATION_SECONDS
         IN  Some(MetaAddr(canonical_socket_addr(r.addr),
                           r.services,
                           Some(t - remainder),
                           None, r.last_attempt, r.last_failure,
                           r.last_connection_state))

\* MetaAddr::sanitize
sanitize(r) ==
    IF ~last_known_info_is_valid_for_outbound(r)
    THEN None
    ELSE IF last_seen(r) = None
    THEN None
    ELSE LET t == unwrap(last_seen(r))
             remainder == t % TIMESTAMP_TRUNCATION_SECONDS
         IN  IF remainder > t
             THEN Panicked
             ELSE Some(MetaAddr(canonical_socket_addr(r.addr),
                                r.services,
                                Some(t - remainder),
                                None, None, None,
                                "NeverAttemptedGossiped"))

\* A faulty new_gossiped_meta_addr, which keeps the address as it was read.
new_gossiped_meta_addr_as_read(addr, services, uls) ==
    MetaAddr(addr, services, Some(uls),
             None, None, None, "NeverAttemptedGossiped")

\* MetaAddr::new_gossiped_meta_addr
new_gossiped_meta_addr(addr, services, uls) ==
    MetaAddr(canonical_socket_addr(addr), services, Some(uls),
             None, None, None, "NeverAttemptedGossiped")

\* ------------------------------------------------------------------------
\* Ordering of peer states and of records
\* ------------------------------------------------------------------------

\* PeerServices::bits
bits(services) == services

\* Ordering::reverse
reverse(o) ==
    IF o = "Less" THEN "Greater" ELSE IF o = "Greater" THEN "Less" ELSE "Equal"

\* A faulty Ordering::then, in which the later comparison decides.
then_prefers_other(self, other) == IF other = "Equal" THEN self ELSE other

\* Ordering::then: self unless it is Equal
then(self, other) == IF self = "Equal" THEN other ELSE self

\* Ord for the integers (u16, u64, the seconds of DateTime32 and Instant)
cmp_int(a, b) ==
    IF a < b THEN "Less" ELSE IF a > b THEN "Greater" ELSE "Equal"

\* Ord for Option<T>: None is less than every Some
cmp_option(a, b) ==
    IF a = None /\ b = None THEN "Equal"
    ELSE IF a = None THEN "Less"
    ELSE IF b = None THEN "Greater"
    ELSE cmp_int(unwrap(a), unwrap(b))

\* Ord for [u8; N]: the first octet that differs decides
RECURSIVE cmp_octets(_, _)
cmp_octets(a, b) ==
    IF a = << >> /\ b = << >> THEN "Equal"
    ELSE IF a = << >> THEN "Less"
    ELSE IF b = << >> THEN "Greater"
    ELSE then(cmp_int(Head(a), Head(b)), cmp_octets(Tail(a), Tail(b)))

\* A faulty PeerAddrState::cmp, which tries Failed peers before the
\* never-attempted ones.
PeerAddrState_cmp_failed_first(self, other) ==
    IF self = other THEN "Equal"
    ELSE IF self = "Responded" THEN "Less"
    ELSE IF other = "Responded" THEN "Greater"
    ELSE IF self = "Failed" THEN "Less"
    ELSE IF other = "Failed" THEN "Greater"
    ELSE IF self = "NeverAttemptedGossiped" THEN "Less"
    ELSE IF other = "NeverAttemptedGossiped" THEN "Greater"
    ELSE IF self = "NeverAttemptedAlternate" THEN "Less"
    ELSE "Greater"

\* Ord for PeerAddrState: the arms of the match, in their order
PeerAddrState_cmp(self, other) ==
    IF self = other THEN "Equal"
    ELSE IF self = "Responded" THEN "Less"
    ELSE IF other = "Responded" THEN "Greater"
    ELSE IF self = "NeverAttemptedGossiped" THEN "Less"
    ELSE IF other = "NeverAttemptedGossiped" THEN "Greater"
    ELSE IF self = "NeverAttemptedAlternate" THEN "Less"
    ELSE IF other = "NeverAttemptedAlternate" THEN "Greater"
    ELSE IF self = "Failed" THEN "Less"
    ELSE "Greater"

\* The comparisons MetaAddr::cmp makes, under the names it gives them.
more_reliable_state(self, other) ==
    PeerAddrState_cmp(self.last_connection_state, other.last_connection_state)
older_attempt(self, other) == cmp_option(self.last_attempt, other.last_attempt)
older_failure(self, other) == cmp_option(self.last_failure, other.last_failure)
older_response(self, other) ==
    cmp_option(self.last_response, other.last_response)

\* A faulty comparison of the gossiped times, without the reverse.
newer_untrusted_last_seen_not_reversed(self, other) ==
    cmp_option(self.untrusted_last_seen, other.untrusted_last_seen)

newer_untrusted_last_seen(self, other) ==
    reverse(cmp_option(self.untrusted_last_seen, other.untrusted_last_seen))

larger_services(self, other) == cmp_int(bits(self.services), bits(other.services))

\* A faulty tie breaker, in which an IPv6 address is less than an IPv4 one
\* as well.
ip_tie_breaker_v6_less(self, other) ==
    IF self.addr.ip.v = other.addr.ip.v
    THEN cmp_octets(self.addr.ip.octets, other.addr.ip.octets)
    ELSE "Less"

ip_tie_breaker(self, other) ==
    IF self.addr.ip.v = 4 /\ other.addr.ip.v = 4
    THEN cmp_octets(self.addr.ip.octets, other.addr.ip.octets)
    ELSE IF self.addr.ip.v = 6 /\ other.addr.ip.v = 6
    THEN cmp_octets(self.addr.ip.octets, other.addr.ip.octets)
    ELSE IF self.addr.ip.v = 4
    THEN "Less"
    ELSE "Greater"

\* A faulty tie breaker, which does not look at the port.
port_tie_breaker_ignored(self, other) == "Equal"

port_tie_breaker(self, other) == cmp_int(self.addr.port, other.addr.port)

\* Ord for MetaAddr
cmp(self, other) ==
    then(more_reliable_state(self, other),
    then(older_attempt(self, other),
    then(older_failure(self, other),
    then(older_response(self, other),
    then(newer_untrusted_last_seen(self, other),
    then(larger_services(self, other),
    then(ip_tie_breaker(self, other),
         port_tie_breaker(self, other))))))))

\* PartialEq for MetaAddr
eq(self, other) == cmp(self, other) = "Equal"

\* ------------------------------------------------------------------------
\* The wire form of a gossiped record: 4 bytes of time, 8 bytes of services,
\* 16 bytes of IP address and 2 bytes of port
\* ------------------------------------------------------------------------

\* The bytes of s in the opposite order.
Reverse(s) == [ i \in 1 .. Len(s) |-> s[Len(s) + 1 - i] ]

\* uN::to_le_bytes: the n bytes of x, least significant first
RECURSIVE to_le_bytes(_, _)
to_le_bytes(x, n) ==
    IF n = 0 THEN << >> ELSE << x % 256 >> \o to_le_bytes(x \div 256, n - 1)

\* uN::from_le_bytes
RECURSIVE from_le_bytes(_)
from_le_bytes(b) ==
    IF b = << >> THEN 0 ELSE b[1] + 256 * from_le_bytes(Tail(b))

\* uN::to_be_bytes: the n bytes of x, most significant first
to_be_bytes(x, n) == Reverse(to_le_bytes(x, n))

\* uN::from_be_bytes
from_be_bytes(b) == from_le_bytes(Reverse(b))

\* The bits that a and b both have.
RECURSIVE BitAnd(_, _)
BitAnd(a, b) ==
    IF a = 0 \/ b = 0
    THEN 0
    ELSE (a % 2) * (b % 2) + 2 * BitAnd(a \div 2, b \div 2)

\* PeerServices::all: the flags the type declares, NODE_NETWORK alone.
PeerServices_all == NODE_NETWORK

\* PeerServices::from_bits_truncate: the bits of no declared flag are dropped.
from_bits_truncate(raw) == BitAnd(raw, PeerServices_all)

\* DateTime32::zcash_serialize: the seconds as a little-endian u32
datetime32_zcash_serialize(t) == to_le_bytes(t, 4)

\* DateTime32::zcash_deserialize
datetime32_zcash_deserialize(b) == from_le_bytes(b)

\* The 16 bytes of an IP address in IPv6 form: ::ffff:a.b.c.d for a.b.c.d
to_ipv6_mapped(ip) ==
    IF ip.v = 4
    THEN << 0, 0, 0, 0, 0, 0, 0, 0, 0, 0, 255, 255 >> \o ip.octets
    ELSE ip.octets

\* WriteZcashExt::write_socket_addr: the IPv6 form, then the big-endian port
write_socket_addr(addr) == to_ipv6_mapped(addr.ip) \o to_be_bytes(addr.port, 2)

\* ReadZcashExt::read_socket_addr
read_socket_addr(b) ==
    SocketAddr(V6(SubSeq(b, 1, 16)), from_be_bytes(SubSeq(b, 17, 18)))

\* META_ADDR_SIZE
META_ADDR_SIZE == 4 + 8 + 16 + 2

\* A faulty max_allocation, which forgets the bytes of the list length.
max_allocation_without_prefix == MAX_PROTOCOL_MESSAGE_LEN \div META_ADDR_SIZE

\* TrustedPreallocate::max_allocation for MetaAddr
max_allocation == (MAX_PROTOCOL_MESSAGE_LEN - 3) \div META_ADDR_SIZE

\* The outcome of the expect in zcash_serialize on a record without last_seen.
MissingLastSeen == << "panic", "unexpected MetaAddr with missing last seen time" >>

\* ZcashSerialize for MetaAddr
zcash_serialize(r) ==
    IF last_seen(r) = None
    THEN MissingLastSeen
    ELSE datetime32_zcash_serialize(unwrap(last_seen(r)))
             \o to_le_bytes(bits(r.services), 8)
             \o write_socket_addr(r.addr)

\* The Err of a reader that runs out of bytes.
UnexpectedEof == << "Err", "failed to fill whole buffer" >>

\* Result::Ok
Ok(x) == << x >>

\* ZcashDeserialize for MetaAddr
zcash_deserialize(b) ==
    IF Len(b) < META_ADDR_SIZE
    THEN UnexpectedEof
    ELSE LET untrusted_last_seen_read == datetime32_zcash_deserialize(SubSeq(b, 1, 4))
             untrusted_services_read ==
                 from_bits_truncate(from_le_bytes(SubSeq(b, 5, 12)))
             addr == read_socket_addr(SubSeq(b, 13, 30))
         IN  Ok(new_gossiped_meta_addr(addr, untrusted_services_read,
                                       untrusted_last_seen_read))

\* MetaAddr::set_untrusted_last_seen: the gossiped time is overwritten
set_untrusted_last_seen(self, t) ==
    [ self EXCEPT !.untrusted_last_seen = Some(t) ]

\* AddressBook::update, for the entry of one endpoint: the record the change
\* produces replaces the stored one, a rejected change leaves it in place.
update(stored, c, dtNow, instNow) ==
    LET updated == apply_to_meta_addr(c, stored, dtNow, instNow)
    IN  IF is_some(updated) THEN updated ELSE stored

\* ------------------------------------------------------------------------
\* State
\* ------------------------------------------------------------------------

VARIABLES
    endpoint,   \* the endpoint whose address book entry is modelled
    book,       \* Option<MetaAddr>: the entry stored for endpoint
    wall,       \* the wall clock read by DateTime32::now()
    mono,       \* the monotonic clock read by Instant::now()
    ever,       \* the states the entry has been in so far
    activity,   \* the latest clock readings at which an Update was applied
    merge,      \* a set of timed updates being merged into the entry
    pc,         \* the position of the caller of the record functions
    record,     \* Option<MetaAddr>: the record handed to sanitize
    sanitized,  \* Option<MetaAddr>: what sanitize returned for record
    wire,       \* the bytes of one gossiped record on the wire
    decoded,    \* Option<MetaAddr>: what zcash_deserialize read from wire
    lhs,        \* Option<MetaAddr>: the record self of a comparison
    rhs,        \* Option<MetaAddr>: the record other of a comparison
    ordering    \* the Ordering that lhs.cmp(rhs) returned

\* The address book entry and its clocks.
bookVars == << endpoint, book, wall, mono, ever, activity, merge >>

\* The arguments and results of the functions of one record.
recordVars == << record, sanitized, wire, decoded >>

\* The arguments and the result of a comparison.
orderVars == << lhs, rhs, ordering >>

vars == << endpoint, book, wall, mono, ever, activity, merge, pc,
           record, sanitized, wire, decoded, lhs, rhs, ordering >>

\* No Update change has been applied to the entry: instant holds the
\* greatest reading of Instant::now() at which an UpdateAttempt or
\* UpdateFailed was applied to the stored record, datetime the greatest
\* reading of DateTime32::now() at which an UpdateResponded was.
NoActivity == [ instant |-> None, datetime |-> None ]

\* The greatest reading so far, after the clock has read t.
Latest(reading, t) ==
    IF reading = None \/ unwrap(reading) < t THEN Some(t) ELSE reading

\* No updates are being merged: previous is the record the updates are
\* merged into, todo the timed updates still to apply, applied those applied.
NoMerge == [ previous |-> None, todo |-> {}, applied |-> {} ]

\* No address book is in use.
BookIdle ==
    /\ endpoint \in Endpoints
    /\ book = None
    /\ wall = 0
    /\ mono = 0
    /\ ever = {}
    /\ activity = NoActivity
    /\ merge = NoMerge

\* No record is being sanitized, written or read.
RecordIdle ==
    /\ record = None
    /\ sanitized = None
    /\ wire = << >>
    /\ decoded = None

\* No records are being compared.
OrderIdle ==
    /\ lhs = None
    /\ rhs = None
    /\ ordering = "Unset"

\* The values of an Option<T> over the values S of T.
OptionOf(S) == { None } \cup { Some(x) : x \in S }

Services == 0 .. MaxServices
WallTimes == { k * WallStep : k \in 0 .. MaxWall }
Instants == { k * InstantStep : k \in 0 .. MaxTicks }

\* The changes a caller can make for the endpoint addr.
Changes(addr) ==
    { NewGossiped(addr, s, t) : s \in Services, t \in WallTimes }
    \cup { NewAlternate(addr, s) : s \in Services }
    \cup { NewLocal(addr) }
    \cup { UpdateAttempt(addr) }
    \cup { UpdateResponded(addr, s) : s \in Services }
    \cup { UpdateFailed(addr, None) }
    \cup { UpdateFailed(addr, Some(s)) : s \in Services }

Init ==
    /\ endpoint \in Endpoints
    /\ book = None
    /\ wall \in WallTimes
    /\ mono = 0
    /\ ever = {}
    /\ activity = NoActivity
    /\ merge = NoMerge
    /\ pc = "book"
    /\ RecordIdle
    /\ OrderIdle

\* A change for the endpoint is applied to its entry.
ApplyChange(c) ==
    /\ book' = update(book, c, wall, mono)
    /\ ever' = IF is_some(book')
               THEN ever \cup { unwrap(book').last_connection_state }
               ELSE ever
    /\ activity' =
           IF is_some(book) /\ c.kind \in { "UpdateAttempt", "UpdateFailed" }
           THEN [ activity EXCEPT !.instant = Latest(@, mono) ]
           ELSE IF is_some(book) /\ c.kind = "UpdateResponded"
           THEN [ activity EXCEPT !.datetime = Latest(@, wall) ]
           ELSE activity
    /\ UNCHANGED << endpoint, wall, mono, merge, pc, recordVars, orderVars >>

\* The gossiped time of the stored record is set in place.
SetUntrustedLastSeen(t) ==
    /\ is_some(book)
    /\ book' = Some(set_untrusted_last_seen(unwrap(book), t))
    /\ UNCHANGED << endpoint, wall, mono, ever, activity, merge, pc,
                    recordVars, orderVars >>

\* The monotonic clock advances.
AdvanceInstant ==
    /\ mono < MaxTicks * InstantStep
    /\ mono' = mono + InstantStep
    /\ UNCHANGED << endpoint, book, wall, ever, activity, merge, pc,
                    recordVars, orderVars >>

\* The wall clock is not monotonic: it advances, or is set back.
SetWallClock(t) ==
    /\ t # wall
    /\ wall' = t
    /\ UNCHANGED << endpoint, book, mono, ever, activity, merge, pc,
                    recordVars, orderVars >>

Next ==
    \/ \E c \in Changes(endpoint) : ApplyChange(c)
    \/ \E t \in WallTimes : SetUntrustedLastSeen(t)
    \/ AdvanceInstant
    \/ \E t \in WallTimes : SetWallClock(t)

Spec == Init /\ [][Next]_vars

\* ------------------------------------------------------------------------
\* Readiness for a connection attempt. The entry of one endpoint is changed
\* while the clocks pass the reconnection delay; the candidate set asks
\* is_ready_for_connection_attempt of the stored record at any time.
\* ------------------------------------------------------------------------

\* The clocks are read at the start, and from the reconnection delay to
\* MaxElapse seconds past it.
MaxElapse == 1

\* The endpoints dialled: a routable one, the unspecified address, port 0.
ReadyEndpoints ==
    Endpoints
    \cup { SocketAddr(V4(<< 0, 0, 0, 0 >>), 8233),
           SocketAddr(V4(<< 192, 0, 2, 1 >>), 0) }

\* The clock readings, in seconds.
ReadyTimes ==
    { 0 } \cup { MIN_PEER_RECONNECTION_DELAY + k : k \in 0 .. MaxElapse }

\* The changes made for a dialled endpoint.
ReadyChanges(addr) ==
    { NewGossiped(addr, s, 0) : s \in Services }
    \cup { NewAlternate(addr, NODE_NETWORK) }
    \cup { UpdateAttempt(addr), UpdateFailed(addr, None) }
    \cup { UpdateResponded(addr, s) : s \in Services }

ReadyInit ==
    /\ endpoint \in ReadyEndpoints
    /\ book = None
    /\ wall \in ReadyTimes
    /\ mono = 0
    /\ ever = {}
    /\ activity = NoActivity
    /\ merge = NoMerge
    /\ pc = "dial"
    /\ RecordIdle
    /\ OrderIdle

\* Time passes: the monotonic clock reads a later instant.
Elapse(t) ==
    /\ t > mono
    /\ mono' = t
    /\ UNCHANGED << endpoint, book, wall, ever, activity, merge, pc,
                    recordVars, orderVars >>

\* The wall clock reads another time, later or earlier.
ReadWallClock(t) ==
    /\ t # wall
    /\ wall' = t
    /\ UNCHANGED << endpoint, book, mono, ever, activity, merge, pc,
                    recordVars, orderVars >>

ReadyNext ==
    \/ \E c \in ReadyChanges(endpoint) : ApplyChange(c)
    \/ \E t \in ReadyTimes : SetUntrustedLastSeen(t)
    \/ \E t \in ReadyTimes : Elapse(t)
    \/ \E t \in ReadyTimes : ReadWallClock(t)

ReadySpec == ReadyInit /\ [][ReadyNext]_vars

\* ------------------------------------------------------------------------
\* Waiting for readiness. Changes reach the entry of one endpoint for a
\* while; then no change is applied, and time passes on both clocks.
\* ------------------------------------------------------------------------

\* The clocks are read up to MaxLive minutes after the start.
MaxLive == 4

\* The last reading of a clock at which a change is applied: the
\* reconnection delay and a minute more are left to pass after it.
LiveCutoff ==
    MaxLive * InstantStep - (MIN_PEER_RECONNECTION_DELAY + InstantStep)

LiveInit ==
    /\ endpoint \in ReadyEndpoints
    /\ book = None
    /\ wall = 0
    /\ mono = 0
    /\ ever = {}
    /\ activity = NoActivity
    /\ merge = NoMerge
    /\ pc = "change"
    /\ RecordIdle
    /\ OrderIdle

\* A change for the endpoint is applied, while changes are being made.
ApplyChangeInTime(c) ==
    /\ pc = "change"
    /\ mono <= LiveCutoff
    /\ wall <= LiveCutoff
    /\ ApplyChange(c)

\* No further change is applied from now on.
StopChanging ==
    /\ pc = "change"
    /\ pc' = "wait"
    /\ UNCHANGED << bookVars, recordVars, orderVars >>

\* Changes are made again.
ResumeChanging ==
    /\ pc = "wait"
    /\ mono <= LiveCutoff
    /\ wall <= LiveCutoff
    /\ pc' = "change"
    /\ UNCHANGED << bookVars, recordVars, orderVars >>

\* A minute passes on the monotonic clock.
PassInstant ==
    /\ mono < MaxLive * InstantStep
    /\ mono' = mono + InstantStep
    /\ UNCHANGED << endpoint, book, wall, ever, activity, merge, pc,
                    recordVars, orderVars >>

\* A minute passes on the wall clock.
PassDateTime ==
    /\ wall < MaxLive * InstantStep
    /\ wall' = wall + InstantStep
    /\ UNCHANGED << endpoint, book, mono, ever, activity, merge, pc,
                    recordVars, orderVars >>

LiveNext ==
    \/ \E c \in ReadyChanges(endpoint) : ApplyChangeInTime(c)
    \/ \E t \in WallTimes : SetUntrustedLastSeen(t)
    \/ StopChanging
    \/ ResumeChanging
    \/ PassInstant
    \/ PassDateTime

\* Time keeps advancing on both clocks.
LiveSpec ==
    /\ LiveInit
    /\ [][LiveNext]_vars
    /\ WF_vars(PassInstant)
    /\ WF_vars(PassDateTime)

\* ------------------------------------------------------------------------
\* Merging updates. Update changes for one endpoint, each with the times it
\* contributes, reach the entry in any order.
\* ------------------------------------------------------------------------

\* At most MaxUpdates updates are merged.
MaxUpdates == 3

\* Update changes for the endpoint addr, each with the clock readings it is
\* applied at: the reading its kind contributes is the start or one step on.
TimedUpdates(addr) ==
    { [ change |-> UpdateAttempt(addr), dtNow |-> 0, instNow |-> i ] :
          i \in { 0, InstantStep } }
    \cup { [ change |-> UpdateFailed(addr, None), dtNow |-> 0, instNow |-> i ] :
               i \in { 0, InstantStep } }
    \cup { [ change |-> UpdateResponded(addr, s), dtNow |-> t, instNow |-> 0 ] :
               s \in { 0, NODE_NETWORK }, t \in { 0, WallStep } }

\* The records updates are merged into: in any state, each local time unset,
\* at the start or one step on.
MergeRecords(addr) ==
    { MetaAddr(addr, NODE_NETWORK, None, lr, la, lf, st) :
          lr \in OptionOf({ 0, WallStep }),
          la \in OptionOf({ 0, InstantStep }),
          lf \in OptionOf({ 0, InstantStep }),
          st \in PeerAddrState }

MergeInit ==
    /\ endpoint \in Endpoints
    /\ book \in { Some(p) : p \in MergeRecords(endpoint) }
    /\ wall = 0
    /\ mono = 0
    /\ ever = {}
    /\ activity = NoActivity
    /\ merge \in { [ previous |-> book, todo |-> us, applied |-> {} ] :
                       us \in { x \in SUBSET TimedUpdates(endpoint) :
                                    Cardinality(x) \in 1 .. MaxUpdates } }
    /\ pc = "merge"
    /\ RecordIdle
    /\ OrderIdle

\* One of the updates still to apply reaches the entry.
ApplyTimed(u) ==
    /\ pc = "merge"
    /\ u \in merge.todo
    /\ book' = update(book, u.change, u.dtNow, u.instNow)
    /\ merge' = [ merge EXCEPT !.todo = @ \ { u }, !.applied = @ \cup { u } ]
    /\ UNCHANGED << endpoint, wall, mono, ever, activity, pc,
                    recordVars, orderVars >>

MergeNext == \E u \in TimedUpdates(endpoint) : ApplyTimed(u)

MergeSpec == MergeInit /\ [][MergeNext]_vars

\* ------------------------------------------------------------------------
\* The functions of one record. A record is sanitized, what sanitize returns
\* is written with zcash_serialize, and the bytes are read back with
\* zcash_deserialize; or bytes received from a peer are read.
\* ------------------------------------------------------------------------

\* Canonical endpoints: the routable one, the unspecified IPv4 and IPv6
\* addresses, port 0, and an IPv6 address.
RecordEndpoints ==
    Endpoints
    \cup { SocketAddr(V4(<< 0, 0, 0, 0 >>), 8233),
           SocketAddr(V6(<< 0, 0, 0, 0, 0, 0, 0, 0, 0, 0, 0, 0, 0, 0, 0, 0 >>), 8233),
           SocketAddr(V4(<< 192, 0, 2, 1 >>), 0),
           SocketAddr(V6(<< 32, 1, 13, 184, 0, 0, 0, 0, 0, 0, 0, 0, 0, 0, 0, 1 >>), 8233) }

\* Times around the multiples of the wall clock's step, the time of a
\* response in 1970, and the greatest time the model's integers hold.
RecordTimes ==
    { k * WallStep + d : k \in 0 .. MaxWall + 1, d \in 0 .. 1 }
    \cup { 1234567, 2147483647 }

\* Every record over these endpoints and times, whatever its state.
AnyRecords ==
    { MetaAddr(a, s, uls, lr, la, lf, st) :
          a \in RecordEndpoints, s \in Services,
          uls \in OptionOf(RecordTimes), lr \in OptionOf(RecordTimes),
          la \in OptionOf(Instants), lf \in OptionOf(Instants),
          st \in PeerAddrState }

\* The 30 bytes of 192.0.2.1:8233 with NODE_NETWORK, last seen at 4096.
GossipedBytes ==
    << 0, 16, 0, 0,
       1, 0, 0, 0, 0, 0, 0, 0,
       0, 0, 0, 0, 0, 0, 0, 0, 0, 0, 255, 255, 192, 0, 2, 1,
       32, 41 >>

\* Bytes a peer can send: those above, with other times, services, a first
\* IP byte that makes the address an IPv6 one, or port 0.
ReceivedBytes ==
    { [ GossipedBytes EXCEPT ![1] = t0, ![4] = t3, ![5] = sv,
                             ![13] = ip1, ![29] = 32 * p, ![30] = 41 * p ] :
          t0 \in { 0, 255 }, t3 \in { 0, 127 }, sv \in 0 .. MaxWireServices,
          ip1 \in { 0, 32 }, p \in 0 .. 1 }

RecordInit ==
    /\ BookIdle
    /\ OrderIdle
    /\ sanitized = None
    /\ decoded = None
    /\ \/ /\ pc = "sanitize"
          /\ record \in { Some(r) : r \in AnyRecords }
          /\ wire = << >>
       \/ /\ pc = "deserialize"
          /\ record = None
          /\ wire \in ReceivedBytes

\* record.sanitize(); only a record is written to the wire.
Sanitize ==
    /\ pc = "sanitize"
    /\ sanitized' = sanitize(unwrap(record))
    /\ pc' = IF is_some(sanitized') /\ Len(sanitized') = 1
             THEN "serialize"
             ELSE "done"
    /\ UNCHANGED << bookVars, orderVars, record, wire, decoded >>

\* The sanitized record is written to the wire.
Serialize ==
    /\ pc = "serialize"
    /\ wire' = zcash_serialize(unwrap(sanitized))
    /\ pc' = "deserialize"
    /\ UNCHANGED << bookVars, orderVars, record, sanitized, decoded >>

\* The bytes on the wire are read.
Deserialize ==
    /\ pc = "deserialize"
    /\ decoded' = zcash_deserialize(wire)
    /\ pc' = "done"
    /\ UNCHANGED << bookVars, orderVars, record, sanitized, wire >>

RecordNext ==
    \/ Sanitize
    \/ Serialize
    \/ Deserialize

RecordSpec == RecordInit /\ [][RecordNext]_vars

\* ------------------------------------------------------------------------
\* The comparison of two records
\* ------------------------------------------------------------------------

\* A Responded, Failed, ... record with every time set, for the routable
\* endpoint, with NODE_NETWORK.
ReferenceRecords ==
    { MetaAddr(a, NODE_NETWORK, Some(0), Some(0), Some(0), Some(0), st) :
          a \in Endpoints, st \in PeerAddrState }

\* Endpoints before and after the routable one: an IPv4 address with a
\* smaller third and a greater fourth octet, an IPv6 address, a smaller and
\* a greater port.
OrderEndpoints ==
    Endpoints
    \cup { SocketAddr(V4(<< 192, 0, 1, 255 >>), 8233),
           SocketAddr(V6(<< 32, 1, 13, 184, 0, 0, 0, 0, 0, 0, 0, 0, 0, 0, 0, 1 >>), 8233),
           SocketAddr(V4(<< 192, 0, 2, 1 >>), 8232),
           SocketAddr(V4(<< 192, 0, 2, 1 >>), 8234) }

\* The records that differ from a reference record in one field at most.
\* Two of them differ in their states and in two more fields at most.
OrderRecords ==
    UNION { { [ ref EXCEPT !.addr = a ] : a \in OrderEndpoints }
            \cup { [ ref EXCEPT !.services = s ] : s \in Services }
            \cup { [ ref EXCEPT !.untrusted_last_seen = t ] :
                       t \in OptionOf(WallTimes) }
            \cup { [ ref EXCEPT !.last_response = t ] : t \in OptionOf(WallTimes) }
            \cup { [ ref EXCEPT !.last_attempt = i ] : i \in OptionOf(Instants) }
            \cup { [ ref EXCEPT !.last_failure = i ] : i \in OptionOf(Instants) }
            : ref \in ReferenceRecords }

OrderInit ==
    /\ BookIdle
    /\ RecordIdle
    /\ pc = "compare"
    /\ lhs \in { Some(r) : r \in OrderRecords }
    /\ rhs \in { Some(r) : r \in OrderRecords }
    /\ ordering = "Unset"

\* lhs.cmp(&rhs)
Compare ==
    /\ pc = "compare"
    /\ ordering' = cmp(unwrap(lhs), unwrap(rhs))
    /\ pc' = "done"
    /\ UNCHANGED << bookVars, recordVars, lhs, rhs >>

OrderNext == Compare

OrderSpec == OrderInit /\ [][OrderNext]_vars

\* ------------------------------------------------------------------------
\* What the specification says of a change, written from its tables, for
\* the properties below to compare the code with.
\* ------------------------------------------------------------------------

AttemptedStates == { "AttemptPending", "Responded", "Failed" }
NeverAttemptedStates == { "NeverAttemptedGossiped", "NeverAttemptedAlternate" }

ImpliedState(c) ==
    CASE c.kind = "NewGossiped"     -> "NeverAttemptedGossiped"
      [] c.kind = "NewAlternate"    -> "NeverAttemptedAlternate"
      [] c.kind = "NewLocal"        -> "NeverAttemptedGossiped"
      [] c.kind = "UpdateAttempt"   -> "AttemptPending"
      [] c.kind = "UpdateResponded" -> "Responded"
      [] c.kind = "UpdateFailed"    -> "Failed"

ContributedLastSeen(c, dtNow) ==
    CASE c.kind = "NewGossiped" -> Some(c.untrusted_last_seen)
      [] c.kind = "NewLocal"    -> Some(dtNow)
      [] OTHER                  -> None

ContributedResponse(c, dtNow) ==
    IF c.kind = "UpdateResponded" THEN Some(dtNow) ELSE None
ContributedAttempt(c, instNow) ==
    IF c.kind = "UpdateAttempt" THEN Some(instNow) ELSE None
ContributedFailure(c, instNow) ==
    IF c.kind = "UpdateFailed" THEN Some(instNow) ELSE None

\* m is the greater of a and b, None counting as less than any time.
IsMaxOf(m, a, b) ==
    /\ m \in { a, b }
    /\ a = None \/ (m # None /\ unwrap(a) <= unwrap(m))
    /\ b = None \/ (m # None /\ unwrap(b) <= unwrap(m))

\* a is at most b, None counting as less than any time.
NotAfter(a, b) == a = None \/ (b # None /\ unwrap(a) <= unwrap(b))

NewChanges == { c \in Changes(endpoint) : c.kind \in NewKinds }
UpdateChanges == { c \in Changes(endpoint) : c.kind \in UpdateKinds }

\* The stored entry is a record in one of the given states.
BookIn(states) ==
    is_some(book) /\ unwrap(book).last_connection_state \in states

\* ------------------------------------------------------------------------
\* Properties
\* ------------------------------------------------------------------------

\* C1: a NewGossiped, NewAlternate or NewLocal change for the endpoint of a
\* record that is AttemptPending, Responded or Failed is rejected:
\* apply_to_meta_addr returns None, and the stored record stays as it was.
C1_NewChangeRejectedAfterAttempt ==
    \A c \in NewChanges :
        BookIn(AttemptedStates)
            => /\ apply_to_meta_addr(c, book, wall, mono) = None
               /\ update(book, c, wall, mono) = book

\* An AttemptPending record, made by UpdateAttempt, for which a NewGossiped
\* change is rejected.
C1_Witness ==
    /\ BookIn({ "AttemptPending" })
    /\ is_some(unwrap(book).last_attempt)
    /\ \E c \in NewChanges :
           /\ c.kind = "NewGossiped"
           /\ apply_to_meta_addr(c, book, wall, mono) = None
           /\ unwrap(update(book, c, wall, mono)).last_connection_state
                  = "AttemptPending"

\* C2: with no previous record, apply_to_meta_addr makes a fresh record
\* exactly for the New changes (the change's endpoint, implied state and
\* services, NODE_NETWORK for NewLocal, its contributed untrusted_last_seen,
\* no other time), and returns None for the Update changes.
C2_NoPreviousRecord ==
    \A c \in Changes(endpoint) :
        LET r == apply_to_meta_addr(c, None, wall, mono)
        IN  CASE c.kind = "NewGossiped" ->
                   r = Some(MetaAddr(c.addr, c.untrusted_services,
                                     Some(c.untrusted_last_seen),
                                     None, None, None,
                                     "NeverAttemptedGossiped"))
              [] c.kind = "NewAlternate" ->
                   r = Some(MetaAddr(c.addr, c.untrusted_services, None,
                                     None, None, None,
                                     "NeverAttemptedAlternate"))
              [] c.kind = "NewLocal" ->
                   r = Some(MetaAddr(c.addr, NODE_NETWORK, Some(wall),
                                     None, None, None,
                                     "NeverAttemptedGossiped"))
              [] OTHER -> r = None

\* The entry is the fresh record a NewLocal change has just made from no
\* record, while an Update change on no record gives nothing.
C2_Witness ==
    /\ book = apply_to_meta_addr(NewLocal(endpoint), None, wall, mono)
    /\ is_some(book)
    /\ unwrap(book).untrusted_last_seen = Some(wall)
    /\ ever = { "NeverAttemptedGossiped" }
    /\ apply_to_meta_addr(UpdateAttempt(endpoint), None, wall, mono) = None

\* C3: a New change c applied to a never-attempted record p gives a record
\* with p's services, p's untrusted_last_seen if set and otherwise the one c
\* contributes, no last_response, last_attempt or last_failure, and the state
\* c implies.
C3_NewChangeMergedIntoNeverAttempted ==
    \A c \in NewChanges :
        BookIn(NeverAttemptedStates)
            => LET p == unwrap(book)
                   r == apply_to_meta_addr(c, book, wall, mono)
               IN  /\ is_some(r)
                   /\ Len(r) = 1
                   /\ unwrap(r).services = p.services
                   /\ unwrap(r).untrusted_last_seen
                          = IF p.untrusted_last_seen # None
                            THEN p.untrusted_last_seen
                            ELSE ContributedLastSeen(c, wall)
                   /\ unwrap(r).last_response = None
                   /\ unwrap(r).last_attempt = None
                   /\ unwrap(r).last_failure = None
                   /\ unwrap(r).last_connection_state = ImpliedState(c)

\* A never-attempted record without a last-seen time takes the time of a
\* NewGossiped change, but not its different services.
C3_Witness ==
    /\ BookIn({ "NeverAttemptedAlternate" })
    /\ unwrap(book).untrusted_last_seen = None
    /\ \E c \in NewChanges :
           LET r == apply_to_meta_addr(c, book, wall, mono)
           IN  /\ c.kind = "NewGossiped"
               /\ c.untrusted_services # unwrap(book).services
               /\ is_some(r)
               /\ unwrap(r).services = unwrap(book).services
               /\ unwrap(r).untrusted_last_seen = Some(c.untrusted_last_seen)
               /\ unwrap(r).last_connection_state = "NeverAttemptedGossiped"

\* C4: an Update change applied to a record p gives a record whose
\* last_response, last_attempt and last_failure are each the maximum of p's
\* value and what the change contributes, None being the least.
C4_UpdateTakesMaximumTimes ==
    \A c \in UpdateChanges :
        is_some(book)
            => LET p == unwrap(book)
                   r == apply_to_meta_addr(c, book, wall, mono)
               IN  /\ is_some(r)
                   /\ Len(r) = 1
                   /\ IsMaxOf(unwrap(r).last_response, p.last_response,
                              ContributedResponse(c, wall))
                   /\ IsMaxOf(unwrap(r).last_attempt, p.last_attempt,
                              ContributedAttempt(c, mono))
                   /\ IsMaxOf(unwrap(r).last_failure, p.last_failure,
                              ContributedFailure(c, mono))

\* An UpdateResponded that contributes a time before the record's
\* last_response leaves last_response as it is.
C4_Witness ==
    /\ is_some(book)
    /\ is_some(unwrap(book).last_response)
    /\ wall < unwrap(unwrap(book).last_response)
    /\ \E c \in UpdateChanges :
           /\ c.kind = "UpdateResponded"
           /\ unwrap(apply_to_meta_addr(c, book, wall, mono)).last_response
                  = unwrap(book).last_response

\* C5: whenever a change for the endpoint of a record p is accepted, none of
\* last_response, last_attempt and last_failure of the result is before p's
\* value, or cleared.
C5_TimesNeverMoveBackward ==
    \A c \in Changes(endpoint) :
        LET r == apply_to_meta_addr(c, book, wall, mono)
        IN  (is_some(book) /\ is_some(r) /\ Len(r) = 1)
                => /\ NotAfter(unwrap(book).last_response, unwrap(r).last_response)
                   /\ NotAfter(unwrap(book).last_attempt, unwrap(r).last_attempt)
                   /\ NotAfter(unwrap(book).last_failure, unwrap(r).last_failure)

\* A record with all three times set, the response time in the future of
\* the wall clock, accepts an UpdateFailed and an UpdateResponded change
\* and keeps its times.
C5_Witness ==
    /\ is_some(book)
    /\ is_some(unwrap(book).last_response)
    /\ is_some(unwrap(book).last_attempt)
    /\ is_some(unwrap(book).last_failure)
    /\ wall < unwrap(unwrap(book).last_response)
    /\ \E c \in UpdateChanges :
           LET r == apply_to_meta_addr(c, book, wall, mono)
           IN  /\ c.kind = "UpdateResponded"
               /\ is_some(r)
               /\ unwrap(r).last_response = unwrap(book).last_response
               /\ unwrap(r).last_attempt = unwrap(book).last_attempt

\* The four optional times of an optional record.
TimesOf(r) ==
    IF r = None
    THEN None
    ELSE << unwrap(r).untrusted_last_seen, unwrap(r).last_response,
            unwrap(r).last_attempt, unwrap(r).last_failure >>

\* The changes c1, which contributes the times of the clocks, and c2, which
\* contributes the times dt2 and inst2, give the same times when applied to
\* the entry in either order. A rejected change leaves no record for the
\* next change to be applied to.
Commute(c1, c2, dt2, inst2) ==
    \A r1 \in { apply_to_meta_addr(c1, book, wall, mono) },
       r2 \in { apply_to_meta_addr(c2, book, dt2, inst2) } :
        \A r12 \in { apply_to_meta_addr(c2, r1, dt2, inst2) },
           r21 \in { apply_to_meta_addr(c1, r2, wall, mono) } :
            TimesOf(r12) = TimesOf(r21)

\* C6, as claimed: any two changes for one endpoint, applied to any optional
\* record in either order, give records that agree on their four times.
C6_AllChangesCommuteOnTimes ==
    \A c1, c2 \in Changes(endpoint) : \A dt2 \in WallTimes, inst2 \in Instants :
        Commute(c1, c2, dt2, inst2)

\* C6, amended: any two Update changes for one endpoint, applied to any
\* optional record in either order, give records that agree on their four
\* times (or nothing, both ways, when there is no record).
C6_UpdateChangesCommuteOnTimes ==
    \A c1, c2 \in UpdateChanges : \A dt2 \in WallTimes, inst2 \in Instants :
        Commute(c1, c2, dt2, inst2)

\* A record to which an UpdateResponded and an UpdateAttempt change,
\* contributing times other than the clocks' and later than the record's,
\* are applied in both orders, with the same times in the end.
C6_Witness ==
    /\ is_some(book)
    /\ \E c1, c2 \in UpdateChanges : \E dt2 \in WallTimes, inst2 \in Instants :
           LET r == apply_to_meta_addr(c2, apply_to_meta_addr(c1, book, wall, mono),
                                       dt2, inst2)
           IN  /\ c1.kind = "UpdateResponded"
               /\ c2.kind = "UpdateAttempt"
               /\ inst2 # mono
               /\ is_some(r)
               /\ unwrap(r).last_response = Some(wall)
               /\ unwrap(r).last_attempt = Some(inst2)
               /\ unwrap(r).last_response # unwrap(book).last_response
               /\ unwrap(r).last_attempt # unwrap(book).last_attempt
               /\ Commute(c1, c2, dt2, inst2)

\* C7: a record that is, or has ever been, Responded has a last_response;
\* likewise AttemptPending and last_attempt, Failed and last_failure.
C7_EverInStateImpliesTimeSet ==
    /\ book = None => ever = {}
    /\ is_some(book) =>
           /\ unwrap(book).last_connection_state \in ever
           /\ "Responded" \in ever => is_some(unwrap(book).last_response)
           /\ "AttemptPending" \in ever => is_some(unwrap(book).last_attempt)
           /\ "Failed" \in ever => is_some(unwrap(book).last_failure)

\* A record that has been in each of the three attempted states and has left
\* Responded and AttemptPending since.
C7_Witness ==
    /\ BookIn({ "Failed" })
    /\ AttemptedStates \subseteq ever
    /\ is_some(unwrap(book).last_response)
    /\ is_some(unwrap(book).last_attempt)
    /\ is_some(unwrap(book).last_failure)

\* A never-attempted record has no last_response, last_attempt or
\* last_failure.
NeverAttemptedHasNoTimes(r) ==
    r.last_connection_state \in NeverAttemptedStates
        => /\ r.last_response = None
           /\ r.last_attempt = None
           /\ r.last_failure = None

\* C8: every record that the changes applied so far have produced, every
\* record sanitize returns for it, and every record made from deserialized
\* fields, has no last_response, last_attempt or last_failure if its state
\* is NeverAttemptedGossiped or NeverAttemptedAlternate.
C8_NeverAttemptedHasNoTimes ==
    /\ is_some(book) => NeverAttemptedHasNoTimes(unwrap(book))
    /\ (is_some(book) /\ is_some(sanitize(unwrap(book))))
           => NeverAttemptedHasNoTimes(unwrap(sanitize(unwrap(book))))
    /\ \A s \in Services, t \in WallTimes :
           NeverAttemptedHasNoTimes(new_gossiped_meta_addr(endpoint, s, t))

\* A never-attempted record that has been in both never-attempted states,
\* and whose sanitized form is a never-attempted record too.
C8_Witness ==
    /\ BookIn({ "NeverAttemptedGossiped" })
    /\ ever = NeverAttemptedStates
    /\ is_some(sanitize(unwrap(book)))
    /\ unwrap(sanitize(unwrap(book))).last_connection_state
           = "NeverAttemptedGossiped"

\* C9: for an absent or never-attempted record and a New change, applying
\* the change twice, the second time at any reading of the clocks, gives the
\* record that applying it once gives.
C9_NewChangeIdempotent ==
    \A c \in NewChanges : \A dt2 \in WallTimes, inst2 \in Instants :
        (book = None \/ BookIn(NeverAttemptedStates))
            => \A once \in { apply_to_meta_addr(c, book, wall, mono) } :
                   /\ is_some(once)
                   /\ apply_to_meta_addr(c, once, dt2, inst2) = once

\* The entry is what a NewLocal change gives when applied to it at an
\* earlier reading of the wall clock: applying it again changes nothing.
C9_Witness ==
    /\ BookIn({ "NeverAttemptedGossiped" })
    /\ unwrap(book).untrusted_last_seen # Some(wall)
    /\ \E dt1 \in WallTimes :
           /\ dt1 # wall
           /\ book = apply_to_meta_addr(NewLocal(endpoint), None, dt1, mono)
           /\ apply_to_meta_addr(NewLocal(endpoint), book, wall, mono) = book

\* The services an Update change carries.
CarriedServices(c) ==
    CASE c.kind = "UpdateResponded" -> Some(c.services)
      [] c.kind = "UpdateFailed"    -> c.optional_services
      [] OTHER                      -> None

\* C10: an Update change applied to a record p gives a record with the
\* services the change carries, or p's when it carries none, and with the
\* state the change implies, whatever p's state and times.
C10_UpdateSetsServicesAndState ==
    \A c \in UpdateChanges :
        is_some(book)
            => LET p == unwrap(book)
                   r == apply_to_meta_addr(c, book, wall, mono)
               IN  /\ is_some(r)
                   /\ Len(r) = 1
                   /\ unwrap(r).services
                          = IF CarriedServices(c) # None
                            THEN unwrap(CarriedServices(c))
                            ELSE p.services
                   /\ unwrap(r).last_connection_state
                          = CASE c.kind = "UpdateAttempt"   -> "AttemptPending"
                              [] c.kind = "UpdateResponded" -> "Responded"
                              [] c.kind = "UpdateFailed"    -> "Failed"

\* A Failed record with NODE_NETWORK and a last_response in the future of
\* the wall clock: an UpdateResponded without NODE_NETWORK makes it Responded
\* with the change's services, an UpdateAttempt keeps its services.
C10_Witness ==
    /\ BookIn({ "Failed" })
    /\ unwrap(book).services = NODE_NETWORK
    /\ is_some(unwrap(book).last_response)
    /\ wall < unwrap(unwrap(book).last_response)
    /\ \E c \in UpdateChanges :
           LET r == apply_to_meta_addr(c, book, wall, mono)
           IN  /\ c.kind = "UpdateResponded"
               /\ c.services = 0
               /\ unwrap(r).services = 0
               /\ unwrap(r).last_connection_state = "Responded"
               /\ unwrap(r).last_response = unwrap(book).last_response
    /\ unwrap(apply_to_meta_addr(UpdateAttempt(endpoint), book, wall, mono)).services
           = NODE_NETWORK

\* The record sanitize was called on, and the record it returned.
SanitizeHasReturned == record # None /\ pc # "sanitize"
SanitizeReturnedSome ==
    SanitizeHasReturned /\ is_some(sanitized) /\ Len(sanitized) = 1

\* C11: for every record r, sanitize(r) is None or a record with no
\* last_response, last_attempt or last_failure, in state
\* NeverAttemptedGossiped, whose untrusted_last_seen is set to a multiple of
\* 1800 seconds.
C11_SanitizedIsGossipedForm ==
    SanitizeHasReturned
        => \/ sanitized = None
           \/ /\ SanitizeReturnedSome
              /\ unwrap(sanitized).last_response = None
              /\ unwrap(sanitized).last_attempt = None
              /\ unwrap(sanitized).last_failure = None
              /\ unwrap(sanitized).last_connection_state
                     = "NeverAttemptedGossiped"
              /\ is_some(unwrap(sanitized).untrusted_last_seen)
              /\ unwrap(unwrap(sanitized).untrusted_last_seen) % 1800 = 0

\* A Failed record with all its times set is sanitized to a record in the
\* gossiped form, last seen at 1800.
C11_Witness ==
    /\ SanitizeReturnedSome
    /\ unwrap(record).last_connection_state = "Failed"
    /\ is_some(unwrap(record).last_attempt)
    /\ is_some(unwrap(record).last_failure)
    /\ unwrap(record).last_response = Some(1801)
    /\ unwrap(sanitized).untrusted_last_seen = Some(1800)
    /\ unwrap(sanitized).last_attempt = None
    /\ unwrap(sanitized).last_connection_state = "NeverAttemptedGossiped"

\* C12: sanitize(r) is a record exactly when r's services have the
\* NODE_NETWORK bit, r's IP address is not all zeros, r's port is not 0 and
\* r has a last_response or an untrusted_last_seen; the record it returns
\* has r's endpoint and r's services.
C12_SanitizedExactlyWhenGossipable ==
    SanitizeHasReturned
        => LET r == unwrap(record)
               gossipable ==
                   /\ r.services % 2 = 1
                   /\ \E i \in DOMAIN r.addr.ip.octets : r.addr.ip.octets[i] # 0
                   /\ r.addr.port # 0
                   /\ (r.last_response # None \/ r.untrusted_last_seen # None)
           IN  /\ gossipable => SanitizeReturnedSome
               /\ ~gossipable => sanitized = None
               /\ SanitizeReturnedSome
                      => /\ unwrap(sanitized).addr = r.addr
                         /\ unwrap(sanitized).services = r.services

\* An AttemptPending record for an IPv6 endpoint, never answered but gossiped
\* with a time, is sanitized to a record with its endpoint and services.
C12_Witness ==
    /\ SanitizeReturnedSome
    /\ unwrap(record).addr.ip.v = 6
    /\ unwrap(record).last_connection_state = "AttemptPending"
    /\ unwrap(record).last_response = None
    /\ is_some(unwrap(record).untrusted_last_seen)
    /\ unwrap(sanitized).addr = unwrap(record).addr
    /\ unwrap(sanitized).services = NODE_NETWORK

\* C13: when sanitize(r) is a record, its untrusted_last_seen is
\* e - (e mod 1800), where e is r's last_response if set and r's
\* untrusted_last_seen otherwise; it is at most e and more than e - 1800,
\* and sanitize never panics on an underflow, also for e < 1800.
C13_SanitizedTimeIsTruncated ==
    /\ SanitizeHasReturned => sanitized # Panicked
    /\ SanitizeReturnedSome
           => LET r == unwrap(record)
                  e == IF r.last_response # None
                       THEN unwrap(r.last_response)
                       ELSE unwrap(r.untrusted_last_seen)
                  t == unwrap(unwrap(sanitized).untrusted_last_seen)
              IN  /\ t = e - (e % 1800)
                  /\ t <= e
                  /\ t > e - 1800
                  /\ t >= 0

\* A record whose last_response, before 1800, differs from its
\* untrusted_last_seen, after 1800, is sanitized to time 0.
C13_Witness ==
    /\ SanitizeReturnedSome
    /\ unwrap(record).last_response = Some(901)
    /\ unwrap(record).untrusted_last_seen = Some(1800)
    /\ unwrap(sanitized).untrusted_last_seen = Some(0)

\* The record of the sanitization scenario has been sanitized: its
\* last_response is 1234567, its services are NODE_NETWORK and its endpoint
\* is valid for outbound connections.
SanitizedScenarioRecord ==
    /\ SanitizeHasReturned
    /\ unwrap(record).last_response = Some(1234567)
    /\ unwrap(record).services = NODE_NETWORK
    /\ unwrap(record).addr \in Endpoints

\* C14, as claimed: a record with last_response 1234567, services
\* NODE_NETWORK and an endpoint that is valid for outbound connections is
\* sanitized to a record with untrusted_last_seen 1233600.
C14_SanitizedScenarioAsClaimed ==
    SanitizedScenarioRecord
        => /\ SanitizeReturnedSome
           /\ unwrap(sanitized).untrusted_last_seen = Some(1233600)

\* C14, amended: a record with last_response 1234567, services NODE_NETWORK
\* and an endpoint that is valid for outbound connections is sanitized to a
\* record with untrusted_last_seen 1233000, which is 685 * 1800.
C14_SanitizedScenario ==
    SanitizedScenarioRecord
        => /\ SanitizeReturnedSome
           /\ unwrap(sanitized).untrusted_last_seen = Some(1233000)

\* The Responded record of the scenario, gossiped with another time before
\* it answered, has been sanitized to time 1233000.
C14_Witness ==
    /\ SanitizedScenarioRecord
    /\ SanitizeReturnedSome
    /\ unwrap(record).untrusted_last_seen = Some(2147483647)
    /\ unwrap(record).last_connection_state = "Responded"
    /\ unwrap(sanitized).untrusted_last_seen = Some(1233000)

\* C15: for every record r that sanitize turns into a record s, reading the
\* bytes zcash_serialize writes for s gives s again: its endpoint, services
\* and untrusted_last_seen, no other time, state NeverAttemptedGossiped.
C15_SanitizedRoundTrip ==
    (SanitizeReturnedSome /\ pc = "done")
        => /\ Len(wire) = 30
           /\ decoded = Ok(unwrap(sanitized))
           /\ unwrap(decoded).addr = unwrap(sanitized).addr
           /\ unwrap(decoded).services = unwrap(sanitized).services
           /\ unwrap(decoded).untrusted_last_seen
                  = unwrap(sanitized).untrusted_last_seen
           /\ unwrap(decoded).last_response = None
           /\ unwrap(decoded).last_attempt = None
           /\ unwrap(decoded).last_failure = None
           /\ unwrap(decoded).last_connection_state = "NeverAttemptedGossiped"

\* The sanitized form of a record for the IPv4 endpoint, last seen at
\* 1233000, has been written as an IPv4-mapped address and read back.
C15_Witness ==
    /\ SanitizeReturnedSome
    /\ pc = "done"
    /\ unwrap(sanitized).addr.ip.v = 4
    /\ SubSeq(wire, 23, 24) = << 255, 255 >>
    /\ unwrap(sanitized).untrusted_last_seen = Some(1233000)
    /\ decoded = sanitized

\* C16: reading any 30 bytes of a gossiped record and writing the record
\* read gives the same 30 bytes; the service bits other than NODE_NETWORK
\* come back as they were received.
C16_ReceivedBytesRoundTrip ==
    (record = None /\ pc = "done")
        => /\ Len(decoded) = 1
           /\ zcash_serialize(unwrap(decoded)) = wire
           /\ from_le_bytes(SubSeq(zcash_serialize(unwrap(decoded)), 5, 12))
                  = from_le_bytes(SubSeq(wire, 5, 12))

\* ------------------------------------------------------------------------
\* What the specification says of the order of records, written from its
\* list of keys.
\* ------------------------------------------------------------------------

\* The place of a state in the chain Responded < NeverAttemptedGossiped <
\* NeverAttemptedAlternate < Failed < AttemptPending.
StateRank(st) ==
    CASE st = "Responded"               -> 0
      [] st = "NeverAttemptedGossiped"  -> 1
      [] st = "NeverAttemptedAlternate" -> 2
      [] st = "Failed"                  -> 3
      [] st = "AttemptPending"          -> 4

\* The place of an optional time: None before every time.
TimeRank(o) == IF o = None THEN 0 - 1 ELSE unwrap(o)

\* Ascending and descending order of ranks.
Ascending(x, y) ==
    IF x < y THEN "Less" ELSE IF y < x THEN "Greater" ELSE "Equal"
Descending(x, y) == Ascending(y, x)

\* An IP address as the sequence of its family and its octets, and the
\* order of two such sequences: the first place where they differ decides.
IpKey(ip) == << ip.v >> \o ip.octets
SequenceOrder(x, y) ==
    LET differ == { i \in DOMAIN x \cap DOMAIN y : x[i] # y[i] }
        first == CHOOSE i \in differ : \A j \in differ : i <= j
    IN  IF differ = {} THEN "Equal" ELSE Ascending(x[first], y[first])

\* The eight keys of the order, each compared on its own.
KeyOrders(a, b) ==
    << Ascending(StateRank(a.last_connection_state),
                 StateRank(b.last_connection_state)),
       Ascending(TimeRank(a.last_attempt), TimeRank(b.last_attempt)),
       Ascending(TimeRank(a.last_failure), TimeRank(b.last_failure)),
       Ascending(TimeRank(a.last_response), TimeRank(b.last_response)),
       Descending(TimeRank(a.untrusted_last_seen),
                  TimeRank(b.untrusted_last_seen)),
       Ascending(a.services, b.services),
       SequenceOrder(IpKey(a.addr.ip), IpKey(b.addr.ip)),
       Ascending(a.addr.port, b.addr.port) >>

\* The order two records have under o1 and, the other way round, under o2.
Opposite(o1, o2) ==
    \/ o1 = "Less" /\ o2 = "Greater"
    \/ o1 = "Equal" /\ o2 = "Equal"
    \/ o1 = "Greater" /\ o2 = "Less"

\* lhs.cmp(&rhs) has returned.
Compared == pc = "done" /\ is_some(lhs) /\ is_some(rhs)

\* C17: cmp is a total order on records: cmp(a, b) is the reverse of
\* cmp(b, a), cmp is transitive, and two records with distinct endpoints
\* never compare Equal.
C17_CmpIsTotalOrder ==
    Compared
        => LET a == unwrap(lhs)
               b == unwrap(rhs)
           IN  /\ ordering \in { "Less", "Equal", "Greater" }
               /\ Opposite(ordering, cmp(b, a))
               /\ \A c \in OrderRecords :
                      LET bc == cmp(b, c)
                          ac == cmp(a, c)
                      IN  /\ (ordering = "Less" /\ bc # "Greater") => ac = "Less"
                          /\ (ordering # "Greater" /\ bc = "Less") => ac = "Less"
                          /\ (ordering = "Equal" /\ bc = "Equal") => ac = "Equal"
               /\ a.addr # b.addr => ordering # "Equal"

\* Two records that differ in their endpoints alone: the first is Greater
\* than the second, the second Less than the first, and a third record is
\* below both.
C17_Witness ==
    /\ Compared
    /\ unwrap(lhs).addr # unwrap(rhs).addr
    /\ [ unwrap(lhs) EXCEPT !.addr = unwrap(rhs).addr ] = unwrap(rhs)
    /\ ordering = "Greater"
    /\ cmp(unwrap(rhs), unwrap(lhs)) = "Less"
    /\ \E c \in OrderRecords :
           /\ cmp(unwrap(rhs), c) = "Greater"
           /\ cmp(unwrap(lhs), c) = "Greater"
           /\ c.last_connection_state = unwrap(rhs).last_connection_state

\* C18: PeerAddrState::cmp orders the five states as the chain Responded <
\* NeverAttemptedGossiped < NeverAttemptedAlternate < Failed < AttemptPending:
\* two distinct states compare as the chain places them, a state is Equal to
\* itself alone, and cmp(a, b) is the reverse of cmp(b, a).
C18_PeerStatesAreAChain ==
    Compared
        => LET a == unwrap(lhs).last_connection_state
               b == unwrap(rhs).last_connection_state
           IN  /\ PeerAddrState_cmp(a, b) = "Less" <=> StateRank(a) < StateRank(b)
               /\ PeerAddrState_cmp(a, b) = "Greater" <=> StateRank(a) > StateRank(b)
               /\ PeerAddrState_cmp(a, b) = "Equal" <=> a = b
               /\ Opposite(PeerAddrState_cmp(a, b), PeerAddrState_cmp(b, a))

\* A Failed record has been compared with a NeverAttemptedAlternate one
\* that is otherwise the same: Failed is the greater state.
C18_Witness ==
    /\ Compared
    /\ unwrap(lhs).last_connection_state = "Failed"
    /\ unwrap(rhs).last_connection_state = "NeverAttemptedAlternate"
    /\ unwrap(lhs).last_attempt = unwrap(rhs).last_attempt
    /\ PeerAddrState_cmp("Failed", "NeverAttemptedAlternate") = "Greater"
    /\ ordering = "Greater"

\* C19: cmp compares the peer state, then last_attempt, last_failure and
\* last_response ascending with None before Some, then untrusted_last_seen
\* descending (the larger time first, no time last), then the services bits
\* ascending, then the IP (v4 before v6, then the octets ascending), then the
\* port ascending; the first key on which the records differ decides. Of two
\* Responded records the one with the older last_attempt sorts first.
C19_CmpIsLexicographic ==
    Compared
        => LET a == unwrap(lhs)
               b == unwrap(rhs)
               keys == KeyOrders(a, b)
               decisive == { k \in DOMAIN keys : keys[k] # "Equal" }
               first == CHOOSE k \in decisive : \A j \in decisive : k <= j
           IN  /\ ordering = IF decisive = {} THEN "Equal" ELSE keys[first]
               /\ ( /\ a.last_connection_state = "Responded"
                    /\ b.last_connection_state = "Responded"
                    /\ is_some(a.last_attempt)
                    /\ is_some(b.last_attempt)
                    /\ unwrap(a.last_attempt) < unwrap(b.last_attempt) )
                      => ordering = "Less"

\* Two Responded records: the first has the older last_attempt and no
\* gossiped time, the second a gossiped time; the first sorts first.
C19_Witness ==
    /\ Compared
    /\ unwrap(lhs).last_connection_state = "Responded"
    /\ unwrap(rhs).last_connection_state = "Responded"
    /\ is_some(unwrap(lhs).last_attempt)
    /\ is_some(unwrap(rhs).last_attempt)
    /\ unwrap(unwrap(lhs).last_attempt) < unwrap(unwrap(rhs).last_attempt)
    /\ unwrap(lhs).untrusted_last_seen = None
    /\ is_some(unwrap(rhs).untrusted_last_seen)
    /\ ordering = "Less"

\* C20: two records are equal, that is cmp returns Equal, if and only if
\* they have the same endpoint, services, untrusted_last_seen, last_response,
\* last_attempt, last_failure and state.
C20_EqualIffSameFields ==
    Compared
        => LET a == unwrap(lhs)
               b == unwrap(rhs)
               same == /\ a.addr = b.addr
                       /\ a.services = b.services
                       /\ a.untrusted_last_seen = b.untrusted_last_seen
                       /\ a.last_response = b.last_response
                       /\ a.last_attempt = b.last_attempt
                       /\ a.last_failure = b.last_failure
                       /\ a.last_connection_state = b.last_connection_state
           IN  /\ ordering = "Equal" <=> same
               /\ eq(a, b) <=> same

\* Two records that differ in their ports alone have been compared, and
\* are not equal.
C20_Witness ==
    /\ Compared
    /\ unwrap(lhs).addr.port # unwrap(rhs).addr.port
    /\ unwrap(lhs).addr.ip = unwrap(rhs).addr.ip
    /\ [ unwrap(lhs) EXCEPT !.addr = unwrap(rhs).addr ] = unwrap(rhs)
    /\ ordering # "Equal"
    /\ ~eq(unwrap(lhs), unwrap(rhs))

\* ------------------------------------------------------------------------
\* Properties of readiness for a connection attempt
\* ------------------------------------------------------------------------

\* The candidate set asks about the stored record of the dialled endpoint.
Dialled == pc = "dial" /\ is_some(book)

\* The time t is unset, or more than d seconds before now.
LongAgo(t, now, d) == t = None \/ now - unwrap(t) > d

\* The record r without its three local times.
WithoutTimes(r) ==
    [ r EXCEPT !.last_response = None, !.last_attempt = None,
               !.last_failure = None ]

\* C21: is_ready_for_connection_attempt is true exactly when the services
\* contain NODE_NETWORK, the IP is specified, the port is not 0, and each of
\* last_response, last_attempt and last_failure is unset or more than 120
\* seconds in the past; a last_response in the future of the wall clock
\* counts as recent, and the record is not ready.
C21_ReadyExactlyWhen ==
    Dialled
        => LET r == unwrap(book)
               ready == is_ready_for_connection_attempt(r, wall, mono)
           IN  /\ ready <=> /\ r.services % 2 = 1
                            /\ r.addr.ip # V4(<< 0, 0, 0, 0 >>)
                            /\ r.addr.port # 0
                            /\ LongAgo(r.last_response, wall, 120)
                            /\ LongAgo(r.last_attempt, mono, 120)
                            /\ LongAgo(r.last_failure, mono, 120)
               /\ (is_some(r.last_response) /\ unwrap(r.last_response) > wall)
                      => ~ready

\* A record with NODE_NETWORK and a routable endpoint that responded, was
\* attempted and failed 121 seconds ago is ready.
C21_Witness ==
    /\ Dialled
    /\ unwrap(book).services = NODE_NETWORK
    /\ unwrap(book).last_response = Some(0)
    /\ unwrap(book).last_attempt = Some(0)
    /\ unwrap(book).last_failure = Some(0)
    /\ wall = 121
    /\ mono = 121
    /\ is_ready_for_connection_attempt(unwrap(book), wall, mono)

\* C22: a record whose services lack NODE_NETWORK, or whose IP is
\* unspecified, or whose port is 0, is not ready for a connection attempt:
\* in any state, with its own times or with none, at any time.
C22_InvalidNeverReady ==
    Dialled
        => LET r == unwrap(book)
           IN  ( \/ r.services % 2 = 0
                 \/ r.addr.ip = V4(<< 0, 0, 0, 0 >>)
                 \/ r.addr.port = 0 )
                   => \A st \in PeerAddrState, dtNow, instNow \in ReadyTimes :
                      \A q \in { r, WithoutTimes(r) } :
                          ~is_ready_for_connection_attempt(
                               [ q EXCEPT !.last_connection_state = st ],
                               dtNow, instNow)

\* A record for 0.0.0.0:8233 with NODE_NETWORK and no local times, long
\* after it was made, is not ready.
C22_Witness ==
    /\ Dialled
    /\ unwrap(book).addr = SocketAddr(V4(<< 0, 0, 0, 0 >>), 8233)
    /\ unwrap(book).services = NODE_NETWORK
    /\ unwrap(book) = WithoutTimes(unwrap(book))
    /\ mono = 121
    /\ ~is_ready_for_connection_attempt(unwrap(book), wall, mono)

\* C23: once an UpdateAttempt, UpdateResponded or UpdateFailed change has
\* been applied to a record when its clock read t, the endpoint's record is
\* not ready whenever that clock reads at most t + 120, whatever changes
\* were applied since. The clock is Instant::now() for UpdateAttempt and
\* UpdateFailed, DateTime32::now() for UpdateResponded. It is enough to
\* state this of the greatest such t of each clock.
C23_NotReadyWithinDelay ==
    Dialled
        => LET ready == is_ready_for_connection_attempt(unwrap(book), wall, mono)
           IN  /\ ( /\ is_some(activity.instant)
                    /\ mono - unwrap(activity.instant) <= 120 ) => ~ready
               /\ ( /\ is_some(activity.datetime)
                    /\ wall - unwrap(activity.datetime) <= 120 ) => ~ready

\* An attempt was made 120 seconds ago, and a response came after it that
\* is now 121 seconds old on the wall clock: the record, otherwise valid,
\* is not ready.
C23_Witness ==
    /\ Dialled
    /\ activity.instant = Some(0)
    /\ activity.datetime = Some(0)
    /\ unwrap(book).last_connection_state = "Responded"
    /\ last_known_info_is_valid_for_outbound(unwrap(book))
    /\ mono = 120
    /\ wall = 121
    /\ ~is_ready_for_connection_attempt(unwrap(book), wall, mono)

\* C24: apply_to_meta_addr with a previous record whose endpoint is not the
\* change's panics, and returns neither Some nor None; every record it
\* returns has the endpoint of the change and of the previous record.
C24_AddrMismatchPanics ==
    Dialled
        => \A addr \in ReadyEndpoints : \A c \in ReadyChanges(addr) :
               LET r == apply_to_meta_addr(c, book, wall, mono)
               IN  /\ addr # unwrap(book).addr => r = Panicked
                   /\ r \notin { None, Panicked }
                          => /\ unwrap(r).addr = addr
                             /\ unwrap(r).addr = unwrap(book).addr

\* A stored record to which a change for another endpoint makes
\* apply_to_meta_addr panic, and a change for its own endpoint gives a record.
C24_Witness ==
    /\ Dialled
    /\ \E addr \in ReadyEndpoints \ { endpoint } :
           apply_to_meta_addr(UpdateAttempt(addr), book, wall, mono) = Panicked
    /\ apply_to_meta_addr(UpdateAttempt(endpoint), book, wall, mono)
           \notin { None, Panicked }

\* C25: max_allocation() is floor((MAX_PROTOCOL_MESSAGE_LEN - 3) / 30); that
\* many records of 30 bytes each, after a list length of 3 bytes, do not
\* exceed MAX_PROTOCOL_MESSAGE_LEN, and one record more would.
C25_MaxAllocationFits ==
    /\ max_allocation * 30 <= MAX_PROTOCOL_MESSAGE_LEN - 3
    /\ (max_allocation + 1) * 30 > MAX_PROTOCOL_MESSAGE_LEN - 3
    /\ (SanitizeReturnedSome /\ pc \in { "deserialize", "done" })
           => /\ Len(wire) = 30
              /\ 3 + max_allocation * Len(wire) <= MAX_PROTOCOL_MESSAGE_LEN
              /\ 3 + (max_allocation + 1) * Len(wire) > MAX_PROTOCOL_MESSAGE_LEN

\* A record has been written, in 30 bytes; 69904 such records and the list
\* length take 2097123 of the 2097152 bytes of a message.
C25_Witness ==
    /\ SanitizeReturnedSome
    /\ pc = "done"
    /\ Len(wire) = META_ADDR_SIZE
    /\ max_allocation = 69904
    /\ 3 + max_allocation * Len(wire) = 2097123

\* C26: MIN_PEER_RECONNECTION_DELAY is HEARTBEAT_INTERVAL + 3 *
\* REQUEST_TIMEOUT, which is 120 seconds, so that a record stays unready
\* for that long after an attempt; HANDSHAKE_TIMEOUT is at most
\* REQUEST_TIMEOUT, and EWMA_DEFAULT_RTT and EWMA_DECAY_TIME are greater
\* than REQUEST_TIMEOUT.
C26_TimeoutsConsistent ==
    /\ MIN_PEER_RECONNECTION_DELAY = HEARTBEAT_INTERVAL + 3 * REQUEST_TIMEOUT
    /\ MIN_PEER_RECONNECTION_DELAY = 120
    /\ HANDSHAKE_TIMEOUT <= REQUEST_TIMEOUT
    /\ EWMA_DEFAULT_RTT > REQUEST_TIMEOUT
    /\ EWMA_DECAY_TIME > REQUEST_TIMEOUT
    /\ (Dialled /\ is_some(unwrap(book).last_attempt))
           => LET r == unwrap(book)
                  since == mono - unwrap(r.last_attempt)
              IN  /\ since <= HEARTBEAT_INTERVAL + 3 * REQUEST_TIMEOUT
                         => ~is_ready_for_connection_attempt(r, wall, mono)
                  /\ ( /\ since > HEARTBEAT_INTERVAL + 3 * REQUEST_TIMEOUT
                       /\ last_known_info_is_valid_for_outbound(r)
                       /\ r.last_response = None
                       /\ r.last_failure = None )
                         => is_ready_for_connection_attempt(r, wall, mono)

\* A valid record, attempted one heartbeat and three request timeouts ago
\* and with no response or failure, is not ready yet.
C26_Witness ==
    /\ Dialled
    /\ last_known_info_is_valid_for_outbound(unwrap(book))
    /\ unwrap(book).last_attempt = Some(0)
    /\ unwrap(book).last_response = None
    /\ unwrap(book).last_failure = None
    /\ mono = HEARTBEAT_INTERVAL + 3 * REQUEST_TIMEOUT
    /\ ~is_ready_for_connection_attempt(unwrap(book), wall, mono)

\* C30: is_ready_for_connection_attempt does not depend on the state of the
\* record: a record in the AttemptPending state whose last_attempt is more
\* than 120 seconds old, with no recent response or failure and valid
\* last-known info, is ready.
C30_ReadyIgnoresState ==
    Dialled
        => LET r == unwrap(book)
           IN  /\ \A st \in PeerAddrState :
                      is_ready_for_connection_attempt(
                          [ r EXCEPT !.last_connection_state = st ], wall, mono)
                      <=> is_ready_for_connection_attempt(r, wall, mono)
               /\ ( /\ r.last_connection_state = "AttemptPending"
                    /\ is_some(r.last_attempt)
                    /\ mono - unwrap(r.last_attempt) > 120
                    /\ LongAgo(r.last_response, wall, 120)
                    /\ LongAgo(r.last_failure, mono, 120)
                    /\ r.services % 2 = 1
                    /\ r.addr.ip # V4(<< 0, 0, 0, 0 >>)
                    /\ r.addr.port # 0 )
                      => is_ready_for_connection_attempt(r, wall, mono)

\* A valid record still in the AttemptPending state 121 seconds after its
\* attempt is ready.
C30_Witness ==
    /\ Dialled
    /\ unwrap(book).last_connection_state = "AttemptPending"
    /\ unwrap(book).last_attempt = Some(0)
    /\ mono = 121
    /\ is_ready_for_connection_attempt(unwrap(book), wall, mono)

\* ------------------------------------------------------------------------
\* Properties of merging several updates
\* ------------------------------------------------------------------------

\* m is the greatest of the optional times in S, None being the least.
IsSupremumOf(m, S) == m \in S /\ \A x \in S : NotAfter(x, m)

\* Every update of the set has been applied, in some order.
Merged == pc = "merge" /\ merge.todo = {} /\ merge.applied # {}

\* C27: Update changes with fixed contributed times, applied to an existing
\* record in any order, give a record whose last_response, last_attempt and
\* last_failure are each the maximum of the record's value and of all the
\* contributions to that field, and so the same in every order; the state
\* is that of the update applied last.
C27_UpdatesMergeToSupremum ==
    Merged
        => LET p == unwrap(merge.previous)
               r == unwrap(book)
               us == merge.applied
           IN  /\ IsSupremumOf(r.last_response,
                      { p.last_response }
                      \cup { ContributedResponse(u.change, u.dtNow) : u \in us })
               /\ IsSupremumOf(r.last_attempt,
                      { p.last_attempt }
                      \cup { ContributedAttempt(u.change, u.instNow) : u \in us })
               /\ IsSupremumOf(r.last_failure,
                      { p.last_failure }
                      \cup { ContributedFailure(u.change, u.instNow) : u \in us })
               /\ r.last_connection_state
                      \in { ImpliedState(u.change) : u \in us }

\* A response at one step on, a response at the start with other services
\* and an attempt have been merged into a record that responded at the
\* start, the later response not last: last_response is the later one.
C27_Witness ==
    /\ Merged
    /\ unwrap(merge.previous).last_response = Some(0)
    /\ unwrap(merge.previous).last_attempt = None
    /\ Cardinality(merge.applied) = 3
    /\ \E u1, u2, u3 \in merge.applied :
           /\ u1.change = UpdateResponded(endpoint, NODE_NETWORK)
           /\ u1.dtNow = WallStep
           /\ u2.change = UpdateResponded(endpoint, 0)
           /\ u2.dtNow = 0
           /\ u3.change.kind = "UpdateAttempt"
           /\ u3.instNow = InstantStep
    /\ unwrap(book).last_response = Some(WallStep)
    /\ unwrap(book).last_attempt = Some(InstantStep)
    /\ unwrap(book).services = 0
    /\ unwrap(book).last_connection_state = "Responded"

\* ------------------------------------------------------------------------
\* Properties of the connection order under remote input
\* ------------------------------------------------------------------------

\* C28: a NewGossiped, NewAlternate or NewLocal change applied to an
\* existing never-attempted record whose untrusted_last_seen is set gives a
\* record with the original values of all fields, which compares Equal to
\* the previous record under cmp.
C28_NewChangeKeepsOrder ==
    ( /\ pc = "book"
      /\ BookIn(NeverAttemptedStates)
      /\ is_some(unwrap(book).untrusted_last_seen) )
        => \A c \in NewChanges :
               LET r == apply_to_meta_addr(c, book, wall, mono)
               IN  /\ r = book
                   /\ cmp(unwrap(r), unwrap(book)) = "Equal"

\* The record a with the remote values of untrusted_last_seen and services.
WithRemote(a, t, s) ==
    [ a EXCEPT !.untrusted_last_seen = t, !.services = s ]

\* C29: for two records that differ in their states, last_attempt,
\* last_failure or last_response, cmp gives the same result for every
\* choice of the untrusted_last_seen and services of both: the remote
\* values change the result only for records that agree on those four.
C29_RemoteValuesAfterLocalKeys ==
    Compared
        => LET a == unwrap(lhs)
               b == unwrap(rhs)
           IN  ( \/ a.last_connection_state # b.last_connection_state
                 \/ a.last_attempt # b.last_attempt
                 \/ a.last_failure # b.last_failure
                 \/ a.last_response # b.last_response )
                   => \A ta, tb \in OptionOf(WallTimes), sa, sb \in Services :
                          cmp(WithRemote(a, ta, sa), WithRemote(b, tb, sb))
                              = ordering

\* Two records in different states, the first the more reliable and with
\* the older untrusted_last_seen: it sorts first, and still does with the
\* remote values of the two exchanged.
C29_Witness ==
    /\ Compared
    /\ unwrap(lhs).last_connection_state = "Responded"
    /\ unwrap(rhs).last_connection_state = "Failed"
    /\ unwrap(lhs).untrusted_last_seen = None
    /\ is_some(unwrap(rhs).untrusted_last_seen)
    /\ ordering = "Less"
    /\ cmp(WithRemote(unwrap(lhs), unwrap(rhs).untrusted_last_seen,
                      unwrap(rhs).services),
           WithRemote(unwrap(rhs), unwrap(lhs).untrusted_last_seen,
                      unwrap(lhs).services)) = "Less"
    /\ cmp(WithRemote(unwrap(rhs), None, 0),
           [ unwrap(rhs) EXCEPT !.untrusted_last_seen = Some(0) ]) # "Equal"

\* ------------------------------------------------------------------------
\* Properties of the history of one entry
\* ------------------------------------------------------------------------

\* C31: once the record of an endpoint has been AttemptPending, Responded
\* or Failed, it is in one of these states after every sequence of changes,
\* and every change applied to it returns None or a record in one of these
\* states, never one in NeverAttemptedGossiped or NeverAttemptedAlternate.
C31_AttemptedNeverReset ==
    (pc = "book" /\ ever \cap AttemptedStates # {})
        => /\ BookIn(AttemptedStates)
           /\ \A c \in Changes(endpoint) :
                  LET r == apply_to_meta_addr(c, book, wall, mono)
                  IN  \/ r = None
                      \/ /\ r # Panicked
                         /\ unwrap(r).last_connection_state \in AttemptedStates
                         /\ unwrap(r).last_connection_state
                                \notin NeverAttemptedStates

\* A record that was gossiped, then attempted, and has since responded:
\* a NewGossiped and a NewAlternate change return None.
C31_Witness ==
    /\ pc = "book"
    /\ { "NeverAttemptedGossiped", "AttemptPending", "Responded" } \subseteq ever
    /\ BookIn({ "Responded" })
    /\ apply_to_meta_addr(NewGossiped(endpoint, NODE_NETWORK, wall),
                          book, wall, mono) = None
    /\ apply_to_meta_addr(NewAlternate(endpoint, NODE_NETWORK),
                          book, wall, mono) = None

\* C32: untrusted_last_seen is written once. An Update change returns a
\* record with the untrusted_last_seen of the previous one; when that is
\* set, every change that is accepted returns it as it was; it goes from
\* None to Some only by a NewGossiped or NewLocal change applied to a
\* never-attempted record.
C32_UntrustedLastSeenWriteOnce ==
    (pc = "book" /\ is_some(book))
        => \A c \in Changes(endpoint) :
               LET p == unwrap(book)
                   r == apply_to_meta_addr(c, book, wall, mono)
               IN  (r # None /\ r # Panicked)
                       => /\ c.kind \in UpdateKinds
                              => unwrap(r).untrusted_last_seen
                                     = p.untrusted_last_seen
                          /\ is_some(p.untrusted_last_seen)
                              => unwrap(r).untrusted_last_seen
                                     = p.untrusted_last_seen
                          /\ unwrap(r).untrusted_last_seen # p.untrusted_last_seen
                              => /\ p.untrusted_last_seen = None
                                 /\ c.kind \in { "NewGossiped", "NewLocal" }
                                 /\ p.last_connection_state
                                        \in NeverAttemptedStates

\* A never-attempted record last seen at 0, when the wall clock reads 900:
\* a NewGossiped change with the time 900, a NewLocal change and an
\* UpdateResponded change all return a record last seen at 0.
C32_Witness ==
    /\ pc = "book"
    /\ BookIn(NeverAttemptedStates)
    /\ unwrap(book).untrusted_last_seen = Some(0)
    /\ wall = WallStep
    /\ \A c \in { NewGossiped(endpoint, NODE_NETWORK, WallStep),
                  NewLocal(endpoint),
                  UpdateResponded(endpoint, NODE_NETWORK) } :
           LET r == apply_to_meta_addr(c, book, wall, mono)
           IN  /\ r \notin { None, Panicked }
               /\ unwrap(r).untrusted_last_seen = Some(0)

\* ------------------------------------------------------------------------
\* Properties of waiting for readiness
\* ------------------------------------------------------------------------

\* The stored record has NODE_NETWORK and an address valid for outbound.
ValidEntry ==
    /\ is_some(book)
    /\ unwrap(book).services % 2 = 1
    /\ unwrap(book).addr.ip # V4(<< 0, 0, 0, 0 >>)
    /\ unwrap(book).addr.port # 0

\* The stored record is ready for a connection attempt now.
ReadyNow ==
    is_some(book) /\ is_ready_for_connection_attempt(unwrap(book), wall, mono)

\* A step that leaves the services and the local times of the stored record
\* as they are: no Update change is applied in it.
NoUpdateStep ==
    /\ is_some(book)
    /\ book' # None
    /\ unwrap(book').services = unwrap(book).services
    /\ unwrap(book').last_response = unwrap(book).last_response
    /\ unwrap(book').last_attempt = unwrap(book).last_attempt
    /\ unwrap(book').last_failure = unwrap(book).last_failure

\* C33: a record with NODE_NETWORK and an address valid for outbound
\* becomes ready for a connection attempt when no further change is applied
\* and time keeps advancing, whatever its state; once ready, it stays ready
\* in every step that applies no Update change.
C33_EventuallyReady ==
    /\ (pc = "wait" /\ ValidEntry) ~> (ReadyNow \/ pc = "change")
    /\ [][ (ValidEntry /\ ReadyNow /\ NoUpdateStep) => ReadyNow' ]_vars

\* A valid record that failed 180 seconds ago, and responded and was
\* attempted before, is ready while no change is applied, in the Failed state.
C33_Witness ==
    /\ pc = "wait"
    /\ ValidEntry
    /\ unwrap(book).last_connection_state = "Failed"
    /\ unwrap(book).last_failure = Some(InstantStep)
    /\ is_some(unwrap(book).last_response)
    /\ is_some(unwrap(book).last_attempt)
    /\ mono = InstantStep + MIN_PEER_RECONNECTION_DELAY + InstantStep
    /\ ReadyNow

====
